---- MODULE Spec2Model ----
(***************************************************************************)
(* The two FUSE file systems of fuse-experiments as one state machine:     *)
(*   CaptureFS  (src/src/mem-fuse.rs), the in-memory engine, and           *)
(*   DatabaseFS (src/src/db-fuse.rs), the relational engine.               *)
(* The engine is chosen in Init; every handler of the Filesystem trait is  *)
(* one action, and each step records the call and the reply it produced.   *)
(***************************************************************************)
EXTENDS Integers, Sequences, FiniteSets, TLC

(***************************************************************************)
(* Program constants.                                                      *)
(***************************************************************************)
MAX_NAME_LENGTH == 255
BLOCK_SIZE == 512
FUSE_ROOT_ID == 1
SEQUENCE_START == 10
DIR_HANDLE == 42
DEFAULT_HANDLE == 0
O_ACCMODE == 3
TwoPow16 == 65536
MaxI32 == 2147483647

(***************************************************************************)
(* Bounds of the model.                                                    *)
(***************************************************************************)
MaxFiles == 2
MaxWrites == 2

(***************************************************************************)
(* Option values: None is the empty sequence, Some(x) a one-element one.   *)
(***************************************************************************)
None == <<>>
Some(x) == <<x>>
IsSome(o) == Len(o) = 1
Unwrap(o) == o[1]

(***************************************************************************)
(* Integer conversions of Rust's `as`.                                     *)
(***************************************************************************)
\* A u64 is kept as its two 32-bit halves, value = hi * 2^32 + lo.
U64(hi, lo) == [hi |-> hi, lo |-> lo]
Id(n) == U64(0, n)
\* u32 as u16, u32 as i32, i32 as u32 (also i64 as u64), u64 as i32
AsU16(x) == x % TwoPow16
AsI32(x) == IF x <= MaxI32 THEN x ELSE ((x - MaxI32) - MaxI32) - 2
AsU32(x) == IF x >= 0 THEN x ELSE ((x + MaxI32) + MaxI32) + 2
U64AsI32(u) == AsI32(u.lo)

(***************************************************************************)
(* Names: a short one, one of exactly the maximum length, one that is one  *)
(* unit too long.  A name is a token; its length is what the code reads.   *)
(***************************************************************************)
Names == {"a", "b", "long"}
NameLen(name) == CASE name = "a" -> 1
                   [] name = "b" -> MAX_NAME_LENGTH
                   [] name = "long" -> MAX_NAME_LENGTH + 1

(***************************************************************************)
(* Payloads are byte sequences; "NL" is the line-break byte and "xFF" a    *)
(* byte that is not valid UTF-8.                                           *)
(***************************************************************************)
NL == "NL"
BadByte == "xFF"
Payloads == { <<"a", NL, "b", NL>>, <<"c", NL>>, <<NL, "c">>, <<"a", NL, BadByte>> }

\* position of the first line break in data, 0 when there is none
FirstBreak(data) ==
  IF \E i \in 1..Len(data) : data[i] = NL
  THEN CHOOSE i \in 1..Len(data) : data[i] = NL /\ \A j \in 1..(i-1) : data[j] # NL
  ELSE 0

\* <[u8]>::split(|&b| b == b'\n'): the fragments between line breaks, empty ones
\* included (an empty slice yields one empty fragment)
RECURSIVE split(_)
split(data) ==
  LET i == FirstBreak(data) IN
  IF i = 0 THEN <<data>>
  ELSE <<SubSeq(data, 1, i - 1)>> \o split(SubSeq(data, i + 1, Len(data)))

\* std::str::from_utf8 succeeds on a fragment that holds no invalid byte
from_utf8_ok(c) == \A i \in 1..Len(c) : c[i] # BadByte

\* Iterator::filter_map of write_inode: the non-empty fragments, in order
nonempty(frags) == SelectSeq(frags, LAMBDA c : Len(c) > 0)

(***************************************************************************)
(* Attribute records.  Times are symbolic: the epoch, the time of the call *)
(* ("now"), or a time given by the caller.                                 *)
(***************************************************************************)
CAPTURE_DIR_ATTR ==
  [ino |-> 1, size |-> 0, blocks |-> 0, atime |-> "UNIX_EPOCH", mtime |-> "UNIX_EPOCH",
   ctime |-> "UNIX_EPOCH", crtime |-> "UNIX_EPOCH", kind |-> "Directory", perm |-> 493,
   nlink |-> 2, uid |-> 501, gid |-> 20, rdev |-> 0, flags |-> 0, blksize |-> 512]

\* the FileAttr literal of CaptureFS::create
mem_attr(ino, mode, uid, gid) ==
  [ino |-> ino, size |-> 0, blocks |-> 0, atime |-> "now", mtime |-> "now",
   ctime |-> "now", crtime |-> "UNIX_EPOCH", kind |-> "RegularFile", perm |-> AsU16(mode),
   nlink |-> 0, uid |-> uid, gid |-> gid, rdev |-> 0, flags |-> 0, blksize |-> AsU32(BLOCK_SIZE)]

new_attr(ino, uid, gid, mode) ==
  [ino |-> AsU32(ino), size |-> 0, blocks |-> 0, atime |-> "now", mtime |-> "now",
   ctime |-> "now", crtime |-> "UNIX_EPOCH", kind |-> "RegularFile", perm |-> AsU16(mode),
   nlink |-> 1, uid |-> uid, gid |-> gid, rdev |-> 0, flags |-> 0, blksize |-> AsU32(BLOCK_SIZE)]

(***************************************************************************)
(* Replies of the fuser reply objects.                                     *)
(***************************************************************************)
ReplyError(e) == [kind |-> "error", errno |-> e]
ReplyEntry(attr) == [kind |-> "entry", attr |-> attr]
ReplyAttr(attr) == [kind |-> "attr", attr |-> attr]
ReplyCreated(attr) == [kind |-> "created", attr |-> attr]
ReplyOpened(fh) == [kind |-> "opened", fh |-> fh]
ReplyWritten(n) == [kind |-> "written", size |-> n]
ReplyDir(ents) == [kind |-> "directory", entries |-> ents]
ReplyOk == [kind |-> "ok"]
NoReply == [kind |-> "none"]
Idle == [op |-> "idle"]

VARIABLES
  engine,      \* "mem" (CaptureFS) or "db" (DatabaseFS)
  pc,          \* "serving", or "panicked" once a handler has panicked; in the life
               \* cycle of DatabaseFS also the statement of new or drop that runs
               \* next, and "exited" once the process has finished
  tables,      \* the tables of the database that exist
  last_inode,  \* CaptureFS.last_inode
  names,       \* CaptureFS.names: name -> inode
  files,       \* CaptureFS.files: inode -> [lines, attr]
  iter,        \* iteration order of the HashMap CaptureFS.names
  seq,         \* next value of the sequence inodes_ino_seq
  inodes,      \* table inodes: rows [ino, name, mode, uid, gid] in insertion order
  content,     \* table content: rows [ino, line] in insertion order
  entries,     \* DatabaseFS.entries: Option of rows [name, ino]
  call,        \* the call of the last step
  reply,       \* the reply the last step produced
  minted,      \* history: [name, ino, mode, uid, gid] of each successful create
  written,     \* history: [ino, data] of each write that replied written
  touched,     \* history: inodes given to a setattr call that ran an UPDATE
  session      \* history: Option of [fh, catalog, reads, phase, next, delivered]: the
               \* handle of the directory session in progress, the catalog when it
               \* was opened, how many readdir calls it has answered (0, or 1 for
               \* one or more), and the progress of a caller that reads from offset
               \* 0 and resumes at the last next-offset it received: "reading",
               \* "done" once such a read came back empty, "strayed" once the
               \* caller left that order; the offset it resumes at; the entries it
               \* has received (both forgotten once it has strayed)

vars == <<engine, pc, tables, last_inode, names, files, iter, seq, inodes, content, entries,
          call, reply, minted, written, touched, session>>

memVars == <<last_inode, names, files, iter>>
dbVars == <<seq, inodes, content, entries>>
histVars == <<minted, written, touched, session>>


(***************************************************************************)
(* Inputs of the calls.                                                    *)
(***************************************************************************)
MemInodes == { Id(n) : n \in 1..(FUSE_ROOT_ID + MaxFiles + 1) }
\* an identifier that agrees with the first allocated one in its low 32 bits only
WideInode == U64(1, SEQUENCE_START)
DbInodes == { Id(n) : n \in {FUSE_ROOT_ID} \cup SEQUENCE_START..(SEQUENCE_START + MaxFiles) }
              \cup {WideInode}
Parents == {Id(FUSE_ROOT_ID), Id(FUSE_ROOT_ID + 1)}
\* the caller's credentials and the requested mode of a create
Requests == { [mode |-> 420, uid |-> 1000, gid |-> 1000] }
\* open flags: O_WRONLY, and a value whose access mode is none of the three
OpenFlags == {1, 3}
Handles == {DEFAULT_HANDLE, DIR_HANDLE}
\* a buffer that holds one entry of any legal name but not two entries, and one
\* that holds every entry
BufSizes == {288, 4096}

Orderings(S) ==
  { p \in [1..Cardinality(S) -> S] : \A i, j \in 1..Cardinality(S) : i # j => p[i] # p[j] }

IsPrefix(s, t) == Len(s) <= Len(t) /\ SubSeq(t, 1, Len(s)) = s

(***************************************************************************)
(* ReplyDirectory: an entry takes a 24 byte header and its name, rounded   *)
(* up to 8 bytes; add reports "full" without storing an entry that does    *)
(* not fit.                                                                *)
(***************************************************************************)
DirentSize(ent) == ((24 + NameLen(ent.name) + 7) \div 8) * 8

\* the loop of CaptureFS::readdir: stop at the first entry the buffer refuses
RECURSIVE add_until_full(_, _, _, _)
add_until_full(ents, i, used, bufsize) ==
  IF i > Len(ents) THEN <<>>
  ELSE IF used + DirentSize(ents[i]) > bufsize THEN <<>>
  ELSE <<ents[i]>> \o add_until_full(ents, i + 1, used + DirentSize(ents[i]), bufsize)

\* the loop of DatabaseFS::readdir: the result of add is ignored
RECURSIVE add_ignoring_full(_, _, _, _)
add_ignoring_full(ents, i, used, bufsize) ==
  IF i > Len(ents) THEN <<>>
  ELSE IF used + DirentSize(ents[i]) > bufsize THEN add_ignoring_full(ents, i + 1, used, bufsize)
  ELSE <<ents[i]>> \o add_ignoring_full(ents, i + 1, used + DirentSize(ents[i]), bufsize)

(***************************************************************************)
(* The catalog of either engine, as a set of [name, ino], and the content  *)
(* records of an inode, in order.                                          *)
(***************************************************************************)
MemCatalog == { [name |-> n, ino |-> names[n]] : n \in DOMAIN names }
DbCatalog == { [name |-> inodes[i].name, ino |-> inodes[i].ino] : i \in 1..Len(inodes) }
Catalog == IF engine = "mem" THEN MemCatalog ELSE DbCatalog

RowLine(row) == row.line
RECURSIVE lines_of(_, _)
lines_of(rows, ino) ==
  IF rows = <<>> THEN <<>>
  ELSE (IF Head(rows).ino = ino THEN <<Head(rows).line>> ELSE <<>>) \o lines_of(Tail(rows), ino)

Records(ino) ==
  IF engine = "mem"
  THEN (IF ino \in DOMAIN files THEN files[ino].lines ELSE <<>>)
  ELSE lines_of(content, ino)

\* a session that has just been opened with handle fh on the catalog cat
session_open(fh, cat) ==
  Some([fh |-> fh, catalog |-> cat, reads |-> 0,
        phase |-> "reading", next |-> 0, delivered |-> <<>>])

\* the session history after a readdir with handle fh from offset was answered with rep
session_read(fh, offset, rep) ==
  IF IsSome(session) /\ Unwrap(session).fh = fh /\ rep.kind = "directory"
  THEN LET s == Unwrap(session)
           e == rep.entries
           resumes == s.phase = "reading" /\ offset = s.next
       IN Some([s EXCEPT
                  !.reads = 1,
                  !.phase = IF resumes THEN (IF e = <<>> THEN "done" ELSE "reading")
                            ELSE IF s.phase = "reading" THEN "strayed" ELSE @,
                  !.next = IF resumes /\ e # <<>> THEN e[Len(e)].offset
                           ELSE IF s.phase = "reading" THEN 0 ELSE @,
                  !.delivered = IF resumes
                                THEN @ \o [k \in 1..Len(e) |->
                                             [name |-> e[k].name, ino |-> e[k].ino]]
                                ELSE IF s.phase = "reading" THEN <<>> ELSE @])
  ELSE session

\* the session history after a releasedir with handle fh: the release of the
\* session's handle ends it, a release of another handle is no part of its order
session_release(fh) ==
  IF IsSome(session) /\ Unwrap(session).fh = fh THEN None
  ELSE IF IsSome(session) /\ Unwrap(session).phase = "reading"
       THEN Some([Unwrap(session) EXCEPT !.phase = "strayed", !.next = 0,
                                         !.delivered = <<>>])
       ELSE session

Init ==
  /\ engine \in {"mem", "db"}
  /\ pc = "serving"
  /\ tables = IF engine = "db" THEN {"inodes", "content"} ELSE {}
  /\ last_inode = FUSE_ROOT_ID
  /\ names = <<>>
  /\ files = <<>>
  /\ iter = <<>>
  /\ seq = SEQUENCE_START
  /\ inodes = <<>>
  /\ content = <<>>
  /\ entries = None
  /\ call = Idle
  /\ reply = NoReply
  /\ minted = <<>>
  /\ written = <<>>
  /\ touched = {}
  /\ session = None

\* self.files.get(&inode): the map is keyed by the full u64
has_file(inode) == inode.hi = 0 /\ inode.lo \in DOMAIN files

\* a handler runs when the session loop holds no call in progress
Mem == engine = "mem" /\ pc = "serving" /\ call = Idle
Db == engine = "db" /\ pc = "serving" /\ call = Idle

(***************************************************************************)
(* CaptureFS                                                               *)
(***************************************************************************)
\* mutant of CaptureFS_lookup_reply: the length check is off by one
CaptureFS_lookup_reply_offbyone(parent, name) ==
  IF NameLen(name) >= MAX_NAME_LENGTH THEN ReplyError("ENAMETOOLONG")
  ELSE IF parent = Id(FUSE_ROOT_ID) /\ name \in DOMAIN names
       THEN (IF names[name] \in DOMAIN files
             THEN ReplyEntry(files[names[name]].attr)
             ELSE ReplyError("EBADFD"))
       ELSE ReplyError("ENOENT")

CaptureFS_lookup_reply(parent, name) ==
  IF NameLen(name) > MAX_NAME_LENGTH THEN ReplyError("ENAMETOOLONG")
  ELSE IF parent = Id(FUSE_ROOT_ID) /\ name \in DOMAIN names
       THEN (IF names[name] \in DOMAIN files
             THEN ReplyEntry(files[names[name]].attr)
             ELSE ReplyError("EBADFD"))
       ELSE ReplyError("ENOENT")

CaptureFS_lookup(parent, name) ==
  /\ Mem
  /\ call' = [op |-> "lookup", parent |-> parent, name |-> name]
  /\ reply' = CaptureFS_lookup_reply(parent, name)
  /\ UNCHANGED <<engine, pc, memVars, dbVars, histVars>>

\* mutant of CaptureFS_forget: forget evicts the file data of the inode
CaptureFS_forget_evicts(inode, nlookup) ==
  /\ Mem
  /\ call' = [op |-> "forget", inode |-> inode, nlookup |-> nlookup]
  /\ reply' = NoReply
  /\ files' = [i \in DOMAIN files \ {inode.lo} |-> files[i]]
  /\ UNCHANGED <<engine, pc, last_inode, names, iter, dbVars, histVars>>

CaptureFS_forget(inode, nlookup) ==
  /\ Mem
  /\ call' = [op |-> "forget", inode |-> inode, nlookup |-> nlookup]
  /\ reply' = NoReply
  /\ UNCHANGED <<engine, pc, memVars, dbVars, histVars>>

CaptureFS_getattr_reply(inode) ==
  IF inode = Id(FUSE_ROOT_ID) THEN ReplyAttr(CAPTURE_DIR_ATTR)
  ELSE IF has_file(inode) THEN ReplyAttr(files[inode.lo].attr)
  ELSE NoReply

CaptureFS_getattr(inode) ==
  /\ Mem
  /\ call' = [op |-> "getattr", inode |-> inode]
  /\ reply' = CaptureFS_getattr_reply(inode)
  /\ UNCHANGED <<engine, pc, memVars, dbVars, histVars>>

\* the entries CaptureFS::readdir offers to the buffer: names.iter().skip(offset).enumerate()
CaptureFS_dirents(offset) ==
  [k \in 1..(IF Len(iter) > offset THEN Len(iter) - offset ELSE 0) |->
     [ino |-> names[iter[offset + k]], offset |-> offset + (k - 1) + 1,
      kind |-> "RegularFile", name |-> iter[offset + k]]]

CaptureFS_readdir_reply(inode, offset, bufsize) ==
  IF inode # Id(FUSE_ROOT_ID) THEN ReplyError("ENOENT")
  ELSE ReplyDir(add_until_full(CaptureFS_dirents(offset), 1, 0, bufsize))

CaptureFS_readdir(inode, fh, offset, bufsize) ==
  /\ Mem
  /\ call' = [op |-> "readdir", inode |-> inode, fh |-> fh, offset |-> offset, bufsize |-> bufsize]
  /\ reply' = CaptureFS_readdir_reply(inode, offset, bufsize)
  /\ session' = session_read(fh, offset, reply')
  /\ UNCHANGED <<engine, pc, memVars, dbVars, minted, written, touched>>

CaptureFS_create(req, parent, name, flags) ==
  /\ Mem
  /\ call' = [op |-> "create", parent |-> parent, name |-> name, mode |-> req.mode,
              uid |-> req.uid, gid |-> req.gid, flags |-> flags]
  /\ IF parent # Id(FUSE_ROOT_ID)
     THEN /\ reply' = ReplyError("EBADFD")
          /\ UNCHANGED <<memVars, minted>>
     ELSE IF name \in DOMAIN names
     THEN /\ reply' = ReplyError("EEXIST")
          /\ UNCHANGED <<memVars, minted>>
     ELSE IF flags % (O_ACCMODE + 1) = O_ACCMODE
     THEN /\ reply' = ReplyError("EINVAL")
          /\ UNCHANGED <<memVars, minted>>
     ELSE /\ Cardinality(DOMAIN names) < MaxFiles
          /\ last_inode' = last_inode + 1
          /\ names' = [n \in DOMAIN names \cup {name} |->
                         IF n = name THEN last_inode' ELSE names[n]]
          /\ iter' \in Orderings(DOMAIN names')
          /\ LET data == [lines |-> <<>>,
                          attr |-> mem_attr(last_inode', req.mode, req.uid, req.gid)]
             IN /\ reply' = ReplyCreated(data.attr)
                /\ files' = [i \in DOMAIN files \cup {last_inode'} |->
                               IF i = last_inode' THEN data ELSE files[i]]
                /\ minted' = Append(minted, [name |-> name, ino |-> data.attr.ino,
                                             mode |-> req.mode, uid |-> req.uid, gid |-> req.gid])
  /\ UNCHANGED <<engine, pc, dbVars, written, touched, session>>

CaptureFS_write(inode, data) ==
  /\ Mem
  /\ call' = [op |-> "write", inode |-> inode, data |-> data]
  /\ IF has_file(inode)
     THEN LET lines == split(data) IN
          IF \A i \in 1..Len(lines) : from_utf8_ok(lines[i])
          THEN /\ Len(written) < MaxWrites
               /\ files' = [files EXCEPT ![inode.lo].lines = @ \o lines]
               /\ reply' = ReplyWritten(AsU32(Len(data)))
               /\ written' = Append(written, [ino |-> inode, data |-> data, ok |-> TRUE])
               /\ pc' = pc
          ELSE \* lines.unwrap() panics
               /\ pc' = "panicked"
               /\ reply' = NoReply
               /\ UNCHANGED <<files, written>>
     ELSE /\ reply' = ReplyError("EBADF")
          /\ UNCHANGED <<files, written, pc>>
  /\ UNCHANGED <<engine, last_inode, names, iter, dbVars, minted, touched, session>>

(***************************************************************************)
(* Handlers CaptureFS does not override: the defaults of fuser::Filesystem *)
(* reply ENOSYS to setattr, hand out handle 0 in opendir and accept every  *)
(* releasedir.                                                             *)
(***************************************************************************)
CaptureFS_setattr(inode, sreq) ==
  /\ Mem
  /\ call' = [op |-> "setattr", inode |-> inode, req |-> sreq, fault |-> "none"]
  /\ reply' = ReplyError("ENOSYS")
  /\ UNCHANGED <<engine, pc, memVars, dbVars, histVars>>

CaptureFS_opendir(inode) ==
  /\ Mem
  /\ call' = [op |-> "opendir", inode |-> inode]
  /\ reply' = ReplyOpened(DEFAULT_HANDLE)
  /\ session' = session_open(DEFAULT_HANDLE, MemCatalog)
  /\ UNCHANGED <<engine, pc, memVars, dbVars, minted, written, touched>>

CaptureFS_releasedir(inode, fh) ==
  /\ Mem
  /\ call' = [op |-> "releasedir", inode |-> inode, fh |-> fh]
  /\ reply' = ReplyOk
  /\ session' = session_release(fh)
  /\ UNCHANGED <<engine, pc, memVars, dbVars, minted, written, touched>>


(***************************************************************************)
(* DatabaseFS: the prepared statements and the helpers built on them.      *)
(***************************************************************************)
\* SELECT ino, uid, gid, mode FROM inodes WHERE name = $1
\* mutant of name_lookup: the statement selects no row
name_lookup_none(name) == <<>>

name_lookup(name) == SelectSeq(inodes, LAMBDA row : row.name = name)

\* SELECT ino, uid, gid, mode FROM inodes WHERE ino = $1
inode_lookup(ino) == SelectSeq(inodes, LAMBDA row : row.ino = ino)

\* SELECT name, ino FROM inodes ORDER BY ino
RECURSIVE order_by_ino(_)
order_by_ino(rows) ==
  IF rows = <<>> THEN <<>>
  ELSE LET m == CHOOSE i \in 1..Len(rows) : \A j \in 1..Len(rows) : rows[i].ino <= rows[j].ino
       IN <<rows[m]>> \o order_by_ino(SubSeq(rows, 1, m - 1) \o SubSeq(rows, m + 1, Len(rows)))

directory_scan ==
  LET rows == order_by_ino(inodes)
  IN [i \in 1..Len(rows) |-> [name |-> rows[i].name, ino |-> rows[i].ino]]

\* Client::query_one succeeds when the statement returns exactly one row
query_one_ok(rows) == Len(rows) = 1

row_attr(row) == new_attr(row.ino, AsU32(row.uid), AsU32(row.gid), AsU32(row.mode))

\* mutant of lookup_name: the statement matches no row
lookup_name_nomatch(name) == [ok |-> FALSE]

lookup_name(name) ==
  LET rows == name_lookup(name)
  IN IF query_one_ok(rows) THEN [ok |-> TRUE, attr |-> row_attr(rows[1])] ELSE [ok |-> FALSE]

get_inode(ino) ==
  LET rows == inode_lookup(U64AsI32(ino))
  IN IF query_one_ok(rows) THEN [ok |-> TRUE, attr |-> row_attr(rows[1])]
     ELSE [ok |-> FALSE, errno |-> "ENOENT"]

\* mutant of allocate_inode: the sequence restarts at every INSERT
allocate_inode_restart(name, mode, uid, gid) ==
  [row |-> [ino |-> SEQUENCE_START, name |-> name, mode |-> AsI32(mode), uid |-> AsI32(uid),
            gid |-> AsI32(gid)],
   attr |-> new_attr(SEQUENCE_START, uid, gid, mode)]

\* INSERT INTO inodes(name, mode, uid, gid) VALUES ($1, $2, $3, $4) RETURNING ino:
\* the row stored and the attributes returned
allocate_inode(name, mode, uid, gid) ==
  [row |-> [ino |-> seq, name |-> name, mode |-> AsI32(mode), uid |-> AsI32(uid),
            gid |-> AsI32(gid)],
   attr |-> new_attr(seq, uid, gid, mode)]

\* the lines write_inode hands to content_insert
write_inode_lines(data) == nonempty(split(data))

(***************************************************************************)
(* DatabaseFS: the handlers.  A handler whose code has a branch for a      *)
(* failed statement takes the failure as an input ("fault").               *)
(***************************************************************************)
DatabaseFS_lookup_reply(parent, name) ==
  IF NameLen(name) > MAX_NAME_LENGTH THEN ReplyError("ENAMETOOLONG")
  ELSE IF parent = Id(FUSE_ROOT_ID)
       THEN (IF lookup_name(name).ok THEN ReplyEntry(lookup_name(name).attr)
             ELSE ReplyError("ENOENT"))
       ELSE ReplyError("EBADF")

DatabaseFS_lookup(parent, name) ==
  /\ Db
  /\ call' = [op |-> "lookup", parent |-> parent, name |-> name]
  /\ reply' = DatabaseFS_lookup_reply(parent, name)
  /\ UNCHANGED <<engine, pc, memVars, dbVars, histVars>>

DatabaseFS_forget(inode, nlookup) ==
  /\ Db
  /\ call' = [op |-> "forget", inode |-> inode, nlookup |-> nlookup]
  /\ reply' = NoReply
  /\ UNCHANGED <<engine, pc, memVars, dbVars, histVars>>

\* mutant of DatabaseFS_getattr_reply: the root is looked up in the table like a file
DatabaseFS_getattr_reply_noroot(inode) ==
  IF get_inode(inode).ok THEN ReplyAttr(get_inode(inode).attr)
  ELSE ReplyError("ENOENT")

DatabaseFS_getattr_reply(inode) ==
  IF inode = Id(FUSE_ROOT_ID) THEN ReplyAttr(CAPTURE_DIR_ATTR)
  ELSE IF get_inode(inode).ok THEN ReplyAttr(get_inode(inode).attr)
  ELSE ReplyError("ENOENT")

DatabaseFS_getattr(inode) ==
  /\ Db
  /\ call' = [op |-> "getattr", inode |-> inode]
  /\ reply' = DatabaseFS_getattr_reply(inode)
  /\ UNCHANGED <<engine, pc, memVars, dbVars, histVars>>

DatabaseFS_create(req, parent, name, flags, fault) ==
  /\ Db
  /\ call' = [op |-> "create", parent |-> parent, name |-> name, mode |-> req.mode,
              uid |-> req.uid, gid |-> req.gid, flags |-> flags]
  /\ IF parent # Id(FUSE_ROOT_ID)
     THEN /\ ~fault
          /\ reply' = ReplyError("EBADFD")
          /\ UNCHANGED <<seq, inodes, minted>>
     ELSE IF lookup_name(name).ok
     THEN /\ ~fault
          /\ reply' = ReplyError("EEXIST")
          /\ UNCHANGED <<seq, inodes, minted>>
     ELSE IF fault
     THEN \* the INSERT fails; the sequence may or may not have moved
          /\ reply' = ReplyError("EBADFD")
          /\ seq' \in {seq, seq + 1}
          /\ seq' <= SEQUENCE_START + MaxFiles
          /\ UNCHANGED <<inodes, minted>>
     ELSE LET new == allocate_inode(name, req.uid, req.gid, req.mode) IN
          /\ Len(inodes) < MaxFiles
          /\ seq <= SEQUENCE_START + MaxFiles
          /\ seq' = seq + 1
          /\ inodes' = Append(inodes, new.row)
          /\ reply' = ReplyCreated(new.attr)
          /\ minted' = Append(minted, [name |-> name, ino |-> new.attr.ino,
                                       mode |-> req.mode, uid |-> req.uid, gid |-> req.gid])
  /\ UNCHANGED <<engine, pc, memVars, content, entries, written, touched, session>>

\* failAt = 0: every INSERT succeeds; failAt = k: the k-th INSERT of the call fails
DatabaseFS_write(inode, data, failAt) ==
  /\ Db
  /\ Len(written) < MaxWrites
  /\ call' = [op |-> "write", inode |-> inode, data |-> data]
  /\ LET ino == U64AsI32(inode)
         lines == write_inode_lines(data)
         rows == [i \in 1..Len(lines) |-> [ino |-> ino, line |-> lines[i]]]
     IN IF \E i \in 1..Len(lines) : ~from_utf8_ok(lines[i])
        THEN \* lines.unwrap() panics
             /\ failAt = 0
             /\ pc' = "panicked"
             /\ reply' = NoReply
             /\ UNCHANGED <<content, written>>
        ELSE /\ failAt <= Len(lines)
             /\ pc' = pc
             /\ IF failAt = 0
                THEN /\ content' = content \o rows
                     /\ reply' = ReplyWritten(AsU32(Len(data)))
                     /\ written' = Append(written, [ino |-> inode, data |-> data, ok |-> TRUE])
                ELSE /\ content' = content \o SubSeq(rows, 1, failAt - 1)
                     /\ reply' = ReplyError("EBADF")
                     /\ written' = Append(written, [ino |-> inode, data |-> data, ok |-> FALSE])
  /\ UNCHANGED <<engine, memVars, seq, inodes, entries, minted, touched, session>>


(***************************************************************************)
(* setattr.  A request names the fields that are present.                  *)
(***************************************************************************)
Sreq(mode, uid, gid, size, atime, mtime) ==
  [mode |-> mode, uid |-> uid, gid |-> gid, size |-> size, atime |-> atime, mtime |-> mtime]

SetattrRequests ==
  { Sreq(None, None, None, None, None, None),
    Sreq(Some(448), None, None, None, None, None),
    Sreq(None, Some(0), None, None, None, None),
    Sreq(None, None, Some(0), None, None, None),
    Sreq(Some(448), Some(0), Some(0), None, None, None),
    Sreq(None, None, None, Some(0), None, None),
    Sreq(Some(448), None, None, Some(0), None, None),
    Sreq(None, None, None, None, Some("T1"), Some("Now")),
    Sreq(Some(448), Some(0), Some(0), Some(0), Some("T1"), Some("Now")) }

SetattrFaults == {"none", "mode", "gid", "uid"}

\* TimeOrNow::SpecificTime(time) => time, TimeOrNow::Now => SystemTime::now()
time_of(t) == IF t = "Now" THEN "now" ELSE t

\* the UPDATE statements of setattr run in the order mode, gid, uid; the first one
\* that fails ends the call
SetattrOrder(field) == CASE field = "mode" -> 1 [] field = "gid" -> 2 [] field = "uid" -> 3
                         [] field = "none" -> 4

\* the UPDATE of this field runs and succeeds
setattr_updates(sreq, fault, field) ==
  IsSome(sreq[field]) /\ SetattrOrder(field) < SetattrOrder(fault)

\* table inodes after the UPDATE statements of the call
setattr_rows(inode, sreq, fault) ==
  LET ino == U64AsI32(inode) IN
  [i \in 1..Len(inodes) |->
     IF inodes[i].ino # ino THEN inodes[i]
     ELSE [ino |-> inodes[i].ino, name |-> inodes[i].name,
           mode |-> IF setattr_updates(sreq, fault, "mode") THEN Unwrap(sreq.mode)
                    ELSE inodes[i].mode,
           gid |-> IF setattr_updates(sreq, fault, "gid") THEN Unwrap(sreq.gid)
                   ELSE inodes[i].gid,
           uid |-> IF setattr_updates(sreq, fault, "uid") THEN Unwrap(sreq.uid)
                   ELSE inodes[i].uid]]

\* the attributes setattr replies with when no statement fails and no size is given
setattr_attrs(attrs, sreq) ==
  [attrs EXCEPT
     !.perm = IF IsSome(sreq.mode) THEN AsU16(Unwrap(sreq.mode)) ELSE @,
     !.gid = IF IsSome(sreq.gid) THEN Unwrap(sreq.gid) ELSE @,
     !.uid = IF IsSome(sreq.uid) THEN Unwrap(sreq.uid) ELSE @,
     !.atime = IF IsSome(sreq.atime) THEN time_of(Unwrap(sreq.atime)) ELSE @,
     !.mtime = IF IsSome(sreq.mtime) THEN time_of(Unwrap(sreq.mtime)) ELSE @]

\* the reply of setattr once get_inode has returned attrs
setattr_reply(attrs, sreq, fault) ==
  IF fault # "none" THEN ReplyError("EINVAL")
  ELSE IF IsSome(sreq.size) THEN ReplyError("EPERM")
  ELSE ReplyAttr(setattr_attrs(attrs, sreq))

DatabaseFS_setattr(inode, sreq, fault) ==
  /\ Db
  /\ (IF fault = "none" THEN TRUE ELSE IsSome(sreq[fault]))
  /\ call' = [op |-> "setattr", inode |-> inode, req |-> sreq, fault |-> fault]
  /\ LET found == get_inode(inode) IN
     IF ~found.ok
     THEN /\ fault = "none"
          /\ reply' = ReplyError(found.errno)
          /\ UNCHANGED <<inodes, touched>>
     ELSE /\ inodes' = setattr_rows(inode, sreq, fault)
          /\ touched' = IF \E f \in {"mode", "gid", "uid"} : setattr_updates(sreq, fault, f)
                        THEN touched \cup {inode} ELSE touched
          /\ reply' = setattr_reply(found.attr, sreq, fault)
  /\ UNCHANGED <<engine, pc, memVars, seq, content, entries, minted, written, session>>

(***************************************************************************)
(* The directory session of DatabaseFS.                                    *)
(***************************************************************************)
DatabaseFS_opendir(inode, fault) ==
  /\ Db
  /\ call' = [op |-> "opendir", inode |-> inode]
  /\ IF inode # Id(FUSE_ROOT_ID)
     THEN /\ ~fault
          /\ reply' = ReplyError("ENOENT")
          /\ UNCHANGED <<entries, session>>
     ELSE IF fault
     THEN /\ reply' = ReplyError("EBADF")
          /\ UNCHANGED <<entries, session>>
     ELSE /\ entries' = Some(directory_scan)
          /\ reply' = ReplyOpened(DIR_HANDLE)
          /\ session' = session_open(DIR_HANDLE, DbCatalog)
  /\ UNCHANGED <<engine, pc, memVars, seq, inodes, content, minted, written, touched>>

DatabaseFS_releasedir(ino, fh) ==
  /\ Db
  /\ call' = [op |-> "releasedir", inode |-> ino, fh |-> fh]
  /\ entries' = None
  /\ reply' = ReplyOk
  /\ session' = session_release(fh)
  /\ UNCHANGED <<engine, pc, memVars, seq, inodes, content, minted, written, touched>>

\* the entries DatabaseFS::readdir offers to the buffer: entries.iter().enumerate()
DatabaseFS_dirents(rows, offset) ==
  [k \in 1..Len(rows) |->
     [ino |-> AsU32(rows[k].ino), offset |-> offset + (k - 1),
      kind |-> "RegularFile", name |-> rows[k].name]]

DatabaseFS_readdir(inode, fh, offset, bufsize) ==
  /\ Db
  /\ call' = [op |-> "readdir", inode |-> inode, fh |-> fh, offset |-> offset, bufsize |-> bufsize]
  /\ IF fh # DIR_HANDLE
     THEN /\ reply' = ReplyError("EINVAL")
          /\ UNCHANGED entries
     ELSE \* self.entries.take()
          /\ entries' = None
          /\ reply' = IF IsSome(entries)
                      THEN ReplyDir(add_ignoring_full(
                                      DatabaseFS_dirents(Unwrap(entries), offset), 1, 0, bufsize))
                      ELSE ReplyDir(<<>>)
  /\ session' = session_read(fh, offset, reply')
  /\ UNCHANGED <<engine, pc, memVars, seq, inodes, content, minted, written, touched>>

(***************************************************************************)
(* The specification.                                                      *)
(***************************************************************************)
\* the session loop of fuser::mount2: the handler has returned, the next request is read
NextRequest ==
  /\ pc = "serving"
  /\ call # Idle
  /\ call' = Idle
  /\ reply' = NoReply
  /\ UNCHANGED <<engine, pc, memVars, dbVars, histVars>>

\* the calls of CaptureFS with their arguments drawn from the input sets P
CaptureFS_call(P) ==
  \/ \E parent \in Parents, name \in P.names : CaptureFS_lookup(parent, name)
  \/ \E inode \in MemInodes : CaptureFS_forget(inode, 1)
  \/ \E inode \in MemInodes : CaptureFS_getattr(inode)
  \/ \E inode \in MemInodes, sreq \in P.sreqs : CaptureFS_setattr(inode, sreq)
  \/ \E inode \in Parents : CaptureFS_opendir(inode)
  \/ \E inode \in Parents, fh \in Handles, offset \in P.offsets, bufsize \in P.bufs :
       CaptureFS_readdir(inode, fh, offset, bufsize)
  \/ \E inode \in Parents, fh \in Handles : CaptureFS_releasedir(inode, fh)
  \/ \E req \in P.requests, parent \in Parents, name \in P.names, flags \in P.flags :
       CaptureFS_create(req, parent, name, flags)
  \/ \E inode \in MemInodes, data \in P.payloads : CaptureFS_write(inode, data)

\* the calls of DatabaseFS with their arguments drawn from the input sets P
DatabaseFS_call(P) ==
  \/ \E parent \in Parents, name \in P.names : DatabaseFS_lookup(parent, name)
  \/ \E inode \in P.dbinodes : DatabaseFS_forget(inode, 1)
  \/ \E inode \in P.dbinodes : DatabaseFS_getattr(inode)
  \/ \E inode \in P.dbinodes, sreq \in P.sreqs, fault \in P.sfaults :
       DatabaseFS_setattr(inode, sreq, fault)
  \/ \E inode \in Parents, fault \in P.faults : DatabaseFS_opendir(inode, fault)
  \/ \E inode \in Parents, fh \in Handles, offset \in P.offsets, bufsize \in P.bufs :
       DatabaseFS_readdir(inode, fh, offset, bufsize)
  \/ \E inode \in Parents, fh \in Handles : DatabaseFS_releasedir(inode, fh)
  \/ \E req \in P.requests, parent \in Parents, name \in P.names, flags \in P.flags,
        fault \in P.faults : DatabaseFS_create(req, parent, name, flags, fault)
  \/ \E inode \in P.dbinodes \cap P.winodes, data \in P.payloads, failAt \in P.failAts :
       DatabaseFS_write(inode, data, failAt)

NextOf(P) ==
  \/ NextRequest /\ UNCHANGED tables
  \/ Mem /\ CaptureFS_call(P) /\ UNCHANGED tables
  \/ Db /\ DatabaseFS_call(P) /\ UNCHANGED tables

(***************************************************************************)
(* Spec: the namespace in full (every name, every parent, both outcomes of *)
(* the INSERT of create), with one payload and one attribute update.       *)
(***************************************************************************)
CatalogInputs ==
  [names |-> Names, requests |-> Requests, flags |-> OpenFlags,
   payloads |-> { <<"c", NL>>, <<"a", NL, BadByte>> },
   dbinodes |-> DbInodes \ {WideInode}, winodes |-> {Id(SEQUENCE_START)},
   sreqs |-> { Sreq(Some(448), None, None, None, None, None),
               Sreq(None, None, None, Some(0), None, None) },
   sfaults |-> {"none"}, faults |-> BOOLEAN, failAts |-> {0},
   offsets |-> {0}, bufs |-> {4096}]

Next == NextOf(CatalogInputs)

Spec == Init /\ [][Next]_vars

(***************************************************************************)
(* SpecContent: the content in full (every payload, every identifier,      *)
(* every failing INSERT), with two names and one setattr request.          *)
(***************************************************************************)
ContentInputs ==
  [names |-> {"a", "b"}, requests |-> Requests, flags |-> {1},
   payloads |-> Payloads, dbinodes |-> DbInodes,
   winodes |-> {Id(SEQUENCE_START), Id(SEQUENCE_START + 1), WideInode},
   sreqs |-> { Sreq(None, None, None, Some(0), None, None) },
   sfaults |-> {"none"}, faults |-> {FALSE}, failAts |-> 0..2,
   offsets |-> {0}, bufs |-> {4096}]

NextContent == NextOf(ContentInputs)

SpecContent == Init /\ [][NextContent]_vars

(***************************************************************************)
(* SpecAttr: setattr in full (every request, every failing UPDATE), with   *)
(* two names and one payload.                                              *)
(***************************************************************************)
AttrInputs ==
  [names |-> {"a", "b"}, requests |-> Requests, flags |-> {1},
   payloads |-> { <<"c", NL>> }, dbinodes |-> DbInodes, winodes |-> {Id(SEQUENCE_START)},
   sreqs |-> SetattrRequests, sfaults |-> SetattrFaults, faults |-> {FALSE}, failAts |-> {0},
   offsets |-> {0}, bufs |-> {4096}]

NextAttr == NextOf(AttrInputs)

SpecAttr == Init /\ [][NextAttr]_vars

(***************************************************************************)
(* SpecLife: the life cycle of the DatabaseFS process.  main calls         *)
(* DatabaseFS::new(params).unwrap(), hands the value to fuser::mount2, and  *)
(* the value is dropped when mount2 is done with it.  Every statement of   *)
(* new ends the function with `?` when it fails, and main's unwrap then     *)
(* ends the process; each statement of drop panics when it fails.          *)
(***************************************************************************)
lifeFrame == <<engine, memVars, inodes, content, entries, histVars, call, reply>>

InitLife ==
  /\ engine = "db"
  /\ pc = "start"
  /\ tables = {}
  /\ last_inode = FUSE_ROOT_ID
  /\ names = <<>>
  /\ files = <<>>
  /\ iter = <<>>
  /\ seq = SEQUENCE_START   \* not read before ALTER SEQUENCE ... RESTART has set it
  /\ inodes = <<>>
  /\ content = <<>>
  /\ entries = None
  /\ call = Idle
  /\ reply = NoReply
  /\ minted = <<>>
  /\ written = <<>>
  /\ touched = {}
  /\ session = None

\* Client::connect(&params, NoTls)?
DatabaseFS_new_connect(ok) ==
  /\ pc = "start"
  /\ pc' = IF ok THEN "new_inodes" ELSE "exited"
  /\ UNCHANGED <<tables, seq, lifeFrame>>

\* client.execute("CREATE TABLE inodes ...")?
DatabaseFS_new_create_inodes(ok) ==
  /\ pc = "new_inodes"
  /\ pc' = IF ok THEN "new_sequence" ELSE "exited"
  /\ tables' = IF ok THEN tables \cup {"inodes"} ELSE tables
  /\ UNCHANGED <<seq, lifeFrame>>

\* client.execute("ALTER SEQUENCE inodes_ino_seq MINVALUE 10 START 10 RESTART")?
DatabaseFS_new_alter_sequence(ok) ==
  /\ pc = "new_sequence"
  /\ pc' = IF ok THEN "new_content" ELSE "exited"
  /\ seq' = IF ok THEN SEQUENCE_START ELSE seq
  /\ UNCHANGED <<tables, lifeFrame>>

\* client.execute("CREATE TABLE content ...")?
DatabaseFS_new_create_content(ok) ==
  /\ pc = "new_content"
  /\ pc' = IF ok THEN "new_prepare" ELSE "exited"
  /\ tables' = IF ok THEN tables \cup {"content"} ELSE tables
  /\ UNCHANGED <<seq, lifeFrame>>

\* the five client.prepare(...)? in a row, then Ok(DatabaseFS {...}) and mount2
DatabaseFS_new_prepare(ok) ==
  /\ pc = "new_prepare"
  /\ pc' = IF ok THEN "serving" ELSE "exited"
  /\ UNCHANGED <<tables, seq, lifeFrame>>

\* the file system is unmounted: mount2 is done and drops the DatabaseFS
Unmount ==
  /\ pc = "serving"
  /\ call = Idle
  /\ pc' = "drop_inodes"
  /\ UNCHANGED <<tables, seq, lifeFrame>>

\* a handler has panicked: the build either unwinds, which drops the DatabaseFS,
\* or aborts the process
Unwind ==
  /\ pc = "panicked"
  /\ pc' \in {"drop_inodes", "exited"}
  /\ UNCHANGED <<tables, seq, lifeFrame>>

\* self.client.execute("DROP TABLE inodes", &[]).unwrap()
DatabaseFS_drop_inodes(ok) ==
  /\ pc = "drop_inodes"
  /\ pc' = IF ok THEN "drop_content" ELSE "exited"
  /\ tables' = IF ok THEN tables \ {"inodes"} ELSE tables
  /\ UNCHANGED <<seq, lifeFrame>>

\* self.client.execute("DROP TABLE content", &[]).unwrap()
DatabaseFS_drop_content(ok) ==
  /\ pc = "drop_content"
  /\ pc' = "exited"
  /\ tables' = IF ok THEN tables \ {"content"} ELSE tables
  /\ UNCHANGED <<seq, lifeFrame>>

LifeInputs ==
  [names |-> {"a", "b"}, requests |-> Requests, flags |-> {1},
   payloads |-> { <<"c", NL>>, <<"a", NL, BadByte>> },
   dbinodes |-> {Id(FUSE_ROOT_ID), Id(SEQUENCE_START)}, winodes |-> {Id(SEQUENCE_START)},
   sreqs |-> { Sreq(Some(448), None, None, None, None, None) },
   sfaults |-> {"none"}, faults |-> {FALSE}, failAts |-> {0},
   offsets |-> {0}, bufs |-> {4096}]

NextLife ==
  \/ \E ok \in BOOLEAN : DatabaseFS_new_connect(ok)
  \/ \E ok \in BOOLEAN : DatabaseFS_new_create_inodes(ok)
  \/ \E ok \in BOOLEAN : DatabaseFS_new_alter_sequence(ok)
  \/ \E ok \in BOOLEAN : DatabaseFS_new_create_content(ok)
  \/ \E ok \in BOOLEAN : DatabaseFS_new_prepare(ok)
  \/ NextRequest /\ UNCHANGED tables
  \/ Db /\ DatabaseFS_call(LifeInputs) /\ UNCHANGED tables
  \/ Unmount
  \/ Unwind
  \/ \E ok \in BOOLEAN : DatabaseFS_drop_inodes(ok)
  \/ \E ok \in BOOLEAN : DatabaseFS_drop_content(ok)

SpecLife == InitLife /\ [][NextLife]_vars

(***************************************************************************)
(* SpecDir: the directory session in full (every offset, both buffer       *)
(* sizes, a failing directory scan), with two names and one payload.       *)
(***************************************************************************)
DirInputs ==
  [names |-> {"a", "b"}, requests |-> Requests, flags |-> {1},
   payloads |-> { <<"c", NL>> },
   dbinodes |-> {Id(FUSE_ROOT_ID), Id(SEQUENCE_START)}, winodes |-> {Id(SEQUENCE_START)},
   sreqs |-> { Sreq(Some(448), None, None, None, None, None) },
   sfaults |-> {"none"}, faults |-> BOOLEAN, failAts |-> {0},
   offsets |-> 0..MaxFiles, bufs |-> BufSizes]

NextDir == NextOf(DirInputs)

SpecDir == Init /\ [][NextDir]_vars


(***************************************************************************)
(* Properties.                                                             *)
(***************************************************************************)
Root == Id(FUSE_ROOT_ID)
\* the entries of the history minted made under this name
MintedAs(name) == { k \in 1..Len(minted) : minted[k].name = name }

\* C1: once create(root, name) has returned identifier i for a name of at most 255
\* units, every later lookup(root, name) succeeds and returns attributes whose
\* identifier is i, whatever calls were made in between.
C1_CreateThenLookup ==
  (call.op = "lookup" /\ call.parent = Root /\ NameLen(call.name) <= MAX_NAME_LENGTH)
    => \A k \in MintedAs(call.name) :
         reply.kind = "entry" /\ reply.attr.ino = minted[k].ino

\* a lookup of the first of two created names, of the maximum length, after a write
C1_Witness ==
  /\ call.op = "lookup" /\ call.parent = Root
  /\ NameLen(call.name) = MAX_NAME_LENGTH
  /\ Len(minted) = 2 /\ minted[1].name = call.name
  /\ written # <<>>
  /\ reply.kind = "entry" /\ reply.attr.ino = minted[1].ino

\* C2: create(root, name) with a name already in the catalog fails with EEXIST and
\* leaves the catalog, every file's content and the inode counter unchanged.
C2_DuplicateCreate ==
  [][ (call'.op = "create" /\ call'.parent = Root
         /\ \E c \in Catalog : c.name = call'.name)
      => /\ reply' = ReplyError("EEXIST")
         /\ UNCHANGED <<names, files, last_inode, inodes, content, seq>> ]_vars

\* a create of a name that is in the catalog, answered with EEXIST
C2_Witness ==
  /\ call.op = "create" /\ call.parent = Root
  /\ \E k \in MintedAs(call.name) : TRUE
  /\ reply = ReplyError("EEXIST")
  /\ written # <<>>

\* C3: the identifiers that successive successful create calls return are strictly
\* increasing and each is greater than the root identifier; the in-memory engine
\* starts at root + 1, the relational engine at 10.
C3_IdentifiersIncrease ==
  /\ \A j, k \in 1..Len(minted) : j < k => minted[j].ino < minted[k].ino
  /\ \A k \in 1..Len(minted) : minted[k].ino > FUSE_ROOT_ID
  /\ minted # <<>> => IF engine = "mem" THEN minted[1].ino = FUSE_ROOT_ID + 1
                      ELSE minted[1].ino >= SEQUENCE_START

\* two creates have succeeded, with an identifier skipped between them
C3_Witness ==
  /\ Len(minted) = 2
  /\ minted[2].ino > minted[1].ino + 1

\* C9: getattr(root) is answered with the constant CAPTURE_DIR_ATTR in every state,
\* after any calls, setattr aimed at the root included.
C9_RootAttributes ==
  /\ (call.op = "getattr" /\ call.inode = Root) => reply = ReplyAttr(CAPTURE_DIR_ATTR)
  /\ engine = "mem" => CaptureFS_getattr_reply(Root) = ReplyAttr(CAPTURE_DIR_ATTR)
  /\ engine = "db" => DatabaseFS_getattr_reply(Root) = ReplyAttr(CAPTURE_DIR_ATTR)

\* getattr(root) answered after a create, a write and an attribute update
C9_Witness ==
  /\ call.op = "getattr" /\ call.inode = Root
  /\ reply.kind = "attr" /\ reply.attr.kind = "Directory" /\ reply.attr.perm = 493
  /\ minted # <<>> /\ written # <<>> /\ touched # {}


\* the fragments of a payload with the empty fragments at its end left out
RECURSIVE DropTrailingEmpty(_)
DropTrailingEmpty(frags) ==
  IF frags # <<>> /\ frags[Len(frags)] = <<>>
  THEN DropTrailingEmpty(SubSeq(frags, 1, Len(frags) - 1))
  ELSE frags

\* the records the writes of the history ws leave in the file ino, in call order
RECURSIVE ExpectedRecords(_, _)
ExpectedRecords(ws, ino) ==
  IF ws = <<>> THEN <<>>
  ELSE (IF Head(ws).ino = Id(ino) THEN DropTrailingEmpty(split(Head(ws).data)) ELSE <<>>)
       \o ExpectedRecords(Tail(ws), ino)

MintedIds == { minted[k].ino : k \in 1..Len(minted) }

\* C4: after any sequence of successful writes to existing files, the records of a
\* file are the concatenation, in call order, of each payload split on the line
\* break with the empty fragments at its end left out.
C4_WriteRecords ==
  (\A k \in 1..Len(written) : written[k].ok /\ \E i \in MintedIds : written[k].ino = Id(i))
    => \A i \in MintedIds : Records(i) = ExpectedRecords(written, i)

\* C5: in every step the records of every created file before the step are a prefix
\* of its records after it, and only a write on that file makes them longer.
C5_AppendOnly ==
  [][ \A i \in MintedIds :
        /\ IsPrefix(Records(i), Records(i)')
        /\ Records(i)' # Records(i) => (call'.op = "write" /\ call'.inode = Id(i)) ]_vars

\* C6: setattr of the relational engine with a size, on an existing inode, fails
\* with EPERM whatever other fields come with it, and leaves the content alone.
C6_SizeRejected ==
  [][ (engine = "db" /\ call'.op = "setattr" /\ IsSome(call'.req.size)
         /\ \E c \in DbCatalog : Id(c.ino) = call'.inode)
      => (reply' = ReplyError("EPERM") /\ content' = content) ]_vars

DirNames(ents) == { [name |-> ents[k].name, ino |-> ents[k].ino] : k \in 1..Len(ents) }

\* C7: the first readdir of a session, from offset 0 into a buffer that holds every
\* entry, returns exactly the catalog as it was at the opendir of the session.
C7_SnapshotIsolation ==
  [][ (call'.op = "readdir" /\ call'.inode = Root /\ call'.offset = 0 /\ call'.bufsize = 4096
         /\ IsSome(session) /\ Unwrap(session).fh = call'.fh /\ Unwrap(session).reads = 0)
      => /\ reply'.kind = "directory"
         /\ DirNames(reply'.entries) = Unwrap(session).catalog
         /\ Len(reply'.entries) = Cardinality(Unwrap(session).catalog) ]_vars

\* C8: readdir with a handle that belongs to no open directory session (never
\* issued, used before opendir, or released) is answered with an error.
C8_InvalidHandle ==
  (call.op = "readdir" /\ ~(IsSome(session) /\ Unwrap(session).fh = call.fh))
    => reply.kind = "error"

\* C10: create replies with the requested mode and the caller's uid and gid, and
\* getattr on the new identifier reports them as long as no setattr changed it.
C10_CreateAttributes ==
  /\ (call.op = "create" /\ reply.kind = "created")
       => (reply.attr.perm = call.mode /\ reply.attr.uid = call.uid
           /\ reply.attr.gid = call.gid)
  /\ (call.op = "getattr" /\ call.inode \notin touched)
       => \A k \in 1..Len(minted) :
            Id(minted[k].ino) = call.inode =>
              /\ reply.kind = "attr"
              /\ reply.attr.perm = minted[k].mode
              /\ reply.attr.uid = minted[k].uid
              /\ reply.attr.gid = minted[k].gid

\* the payload holds a fragment that from_utf8 rejects
Undecodable(data) ==
  LET frags == split(data) IN \E i \in 1..Len(frags) : ~from_utf8_ok(frags[i])

\* C11: a write whose payload holds an undecodable fragment is answered with an
\* error reply, leaves the handler serving (no panic), and appends no record.
C11_UndecodableWrite ==
  [][ (call'.op = "write" /\ Undecodable(call'.data))
      => (pc' = "serving" /\ reply'.kind = "error" /\ files' = files /\ content' = content) ]_vars

\* C12: getattr on an identifier that is neither the root nor the identifier of a
\* created file is answered, and the answer is ENOENT.
C12_GetattrUnknown ==
  (call.op = "getattr" /\ call.inode # Root /\ \A i \in MintedIds : call.inode # Id(i))
    => reply = ReplyError("ENOENT")

\* C13: lookup and create with a name longer than MAX_NAME_LENGTH are answered
\* with ENAMETOOLONG, and no such name is ever in the catalog.
C13_NameTooLong ==
  /\ (call.op \in {"lookup", "create"} /\ NameLen(call.name) > MAX_NAME_LENGTH)
       => reply = ReplyError("ENAMETOOLONG")
  /\ \A c \in Catalog : NameLen(c.name) <= MAX_NAME_LENGTH

\* C14: lookup and create with a parent other than the root (and a name of legal
\* length) are answered with a bad-parent error (EBADF or EBADFD), never ENOENT,
\* and leave the catalog and the inode counter as they were.
C14_BadParent ==
  [][ (call'.op \in {"lookup", "create"} /\ call'.parent # Root
         /\ NameLen(call'.name) <= MAX_NAME_LENGTH)
      => /\ reply'.kind = "error"
         /\ reply'.errno \in {"EBADF", "EBADFD"}
         /\ UNCHANGED <<names, files, last_inode, inodes, seq>> ]_vars

\* C15: a write (of a decodable payload) on an identifier no create has returned is
\* answered with an error, and every stored content record belongs to an
\* identifier of the catalog.
C15_WriteUnknown ==
  /\ (call.op = "write" /\ ~Undecodable(call.data) /\ \A i \in MintedIds : call.inode # Id(i))
       => reply.kind = "error"
  /\ \A k \in 1..Len(content) : \E c \in DbCatalog : c.ino = content[k].ino
  /\ \A i \in DOMAIN files : \E c \in MemCatalog : c.ino = i

\* C16: when the process of the relational engine has finished, neither of the
\* tables that DatabaseFS::new created exists any more.
C16_TablesDropped == pc = "exited" => tables = {}

\* C17: the entries of every directory listing are in ascending order of inode
\* identifier.
C17_ListingOrder ==
  (call.op = "readdir" /\ reply.kind = "directory")
    => \A j, k \in 1..Len(reply.entries) :
         j < k => reply.entries[j].ino < reply.entries[k].ino

\* C18: in a session whose snapshot holds n entries and still equals the catalog, a
\* readdir from offset k <= n into a buffer that holds every entry emits n - k
\* entries of the snapshot, and the j-th of them carries the next-offset k + j.
C18_OffsetResume ==
  [][ (call'.op = "readdir" /\ call'.inode = Root /\ call'.bufsize = 4096
         /\ IsSome(session) /\ Unwrap(session).fh = call'.fh
         /\ Unwrap(session).catalog = Catalog
         /\ call'.offset <= Cardinality(Unwrap(session).catalog))
      => /\ reply'.kind = "directory"
         /\ Len(reply'.entries) = Cardinality(Unwrap(session).catalog) - call'.offset
         /\ DirNames(reply'.entries) \subseteq Unwrap(session).catalog
         /\ \A j \in 1..Len(reply'.entries) :
              reply'.entries[j].offset = call'.offset + j ]_vars

\* the row of table inodes after a setattr that carries the request req
Updated(row, req) ==
  [row EXCEPT !.mode = IF IsSome(req.mode) THEN Unwrap(req.mode) ELSE @,
              !.uid = IF IsSome(req.uid) THEN Unwrap(req.uid) ELSE @,
              !.gid = IF IsSome(req.gid) THEN Unwrap(req.gid) ELSE @]

\* the reply is an attribute record that shows the mode, uid and gid of the row
Shows(rep, row) ==
  /\ rep.kind = "attr"
  /\ rep.attr.ino = row.ino
  /\ rep.attr.perm = AsU16(row.mode)
  /\ rep.attr.uid = row.uid
  /\ rep.attr.gid = row.gid

\* C19: a setattr of the relational engine without a size, all of whose statements
\* the store accepts, on an existing inode gives the present fields among mode,
\* uid and gid their requested values and leaves the absent ones and every other
\* inode alone; the reply and a getattr after it show the resulting values; on an
\* identifier that does not exist it is answered ENOENT and changes nothing.
C19_PartialUpdate ==
  [][ (engine = "db" /\ call'.op = "setattr" /\ call'.fault = "none"
         /\ ~IsSome(call'.req.size))
      => IF \E i \in 1..Len(inodes) : Id(inodes[i].ino) = call'.inode
         THEN /\ Len(inodes') = Len(inodes)
              /\ \A i \in 1..Len(inodes) :
                   IF Id(inodes[i].ino) = call'.inode
                   THEN /\ inodes'[i] = Updated(inodes[i], call'.req)
                        /\ Shows(reply', inodes'[i])
                        /\ Shows(DatabaseFS_getattr_reply(call.inode)', inodes'[i])
                   ELSE inodes'[i] = inodes[i]
         ELSE /\ reply' = ReplyError("ENOENT")
              /\ inodes' = inodes ]_vars

\* C20: lookup, getattr, forget, opendir, readdir and releasedir leave the catalog
\* (names, identifiers, mode, uid, gid), the inode counter and the content records
\* of every file as they were; forget is never answered with an error and changes
\* no state of the file system at all.
C20_ReadOnlyCalls ==
  [][ (call'.op \in {"lookup", "getattr", "forget", "opendir", "readdir", "releasedir"})
      => /\ UNCHANGED <<names, files, last_inode, inodes, seq, content>>
         /\ call'.op = "forget"
              => (reply'.kind # "error" /\ UNCHANGED <<pc, tables, memVars, dbVars>>) ]_vars

C20_Witness ==
  /\ call.op = "forget"
  /\ Len(minted) = 2
  /\ written # <<>>
  /\ IsSome(session) /\ Unwrap(session).reads = 1

\* C21: in every reachable state no two inodes share a name or an identifier; in
\* CaptureFS every identifier of the name map has file data whose attribute
\* identifier is its key, every file is named by exactly one name, and lookup
\* never takes the branch for a name without file data (EBADFD).
C21_CatalogConsistent ==
  /\ \A i, j \in 1..Len(inodes) :
       i # j => (inodes[i].name # inodes[j].name /\ inodes[i].ino # inodes[j].ino)
  /\ \A n, m \in DOMAIN names : n # m => names[n] # names[m]
  /\ \A n \in DOMAIN names :
       names[n] \in DOMAIN files /\ files[names[n]].attr.ino = names[n]
  /\ \A i \in DOMAIN files : Cardinality({n \in DOMAIN names : names[n] = i}) = 1
  /\ (engine = "mem" /\ call.op = "lookup") => reply # ReplyError("EBADFD")

C21_Witness ==
  /\ Cardinality(Catalog) = 2
  /\ call.op = "create" /\ reply = ReplyError("EEXIST")

\* C22: a setattr of the relational engine that is answered with an error leaves
\* the persisted mode, uid and gid of every inode as they were.
C22_SetattrAllOrNothing ==
  [][ (engine = "db" /\ call'.op = "setattr" /\ reply'.kind = "error")
      => inodes' = inodes ]_vars

\* C23: in the relational engine a getattr or setattr answered with attributes
\* shows the inode whose identifier is the 64-bit identifier of the call, and a
\* getattr, setattr or write changes neither the row nor the content records of
\* an inode whose identifier differs from the identifier of the call.
C23_NoAliasing ==
  [][ (engine = "db" /\ call'.op \in {"getattr", "setattr", "write"})
      => /\ reply'.kind = "attr" => Id(reply'.attr.ino) = call'.inode
         /\ \A i \in 1..Len(inodes) :
              Id(inodes[i].ino) # call'.inode
                => /\ inodes'[i] = inodes[i]
                   /\ lines_of(content', inodes[i].ino) = lines_of(content, inodes[i].ino) ]_vars

\* C24: when a caller has read a session from offset 0, resuming each time at the
\* last next-offset it received, until a read came back empty, and the catalog is
\* still the one of the opendir, it has received every entry of that catalog
\* exactly once.
C24_ResumeDeliversAll ==
  (IsSome(session) /\ Unwrap(session).phase = "done" /\ Unwrap(session).catalog = Catalog)
    => /\ DirNames(Unwrap(session).delivered) = Unwrap(session).catalog
       /\ Len(Unwrap(session).delivered) = Cardinality(Unwrap(session).catalog)

====
